---------------------------- MODULE Spec2Model ----------------------------
(***************************************************************************)
(* CortexHub backend: the document upload / embedding pipeline and the     *)
(* retrieval-augmented query handler of server.ts, with the document       *)
(* listing of routes/workspace.ts and the Document schema.                 *)
(*                                                                         *)
(* A JavaScript string is a sequence whose elements are single characters; *)
(* a string literal of the source that is only ever concatenated is kept   *)
(* as one element.  An optional value (undefined or a value) is a record   *)
(* [has, val].                                                             *)
(***************************************************************************)
EXTENDS Integers, Sequences, FiniteSets, TLC

(***************************************************************************)
(* Bounds of the model.                                                    *)
(***************************************************************************)
MaxUploads == 2
MaxQueries == 1

Uploads == 1..MaxUploads
Queries == 1..MaxQueries

(***************************************************************************)
(* Strings.                                                                *)
(***************************************************************************)
None == [has |-> FALSE, val |-> <<>>]
Some(v) == [has |-> TRUE, val |-> v]

\* JavaScript truthiness of an optional string: undefined and "" are falsy.
Truthy(o) == o.has /\ o.val # <<>>

WhiteSpace == {" ", "\t", "\n", "\r"}
LineTerminators == {"\n", "\r"}

RECURSIVE TrimStart(_)
TrimStart(s) ==
  IF s # <<>> /\ Head(s) \in WhiteSpace THEN TrimStart(Tail(s)) ELSE s

RECURSIVE TrimEnd(_)
TrimEnd(s) ==
  IF s # <<>> /\ s[Len(s)] \in WhiteSpace
  THEN TrimEnd(SubSeq(s, 1, Len(s) - 1))
  ELSE s

\* String.prototype.trim
Trim(s) == TrimEnd(TrimStart(s))

IsAt(s, p, i) ==
  /\ i + Len(p) - 1 <= Len(s)
  /\ \A k \in 1..Len(p) : s[i + k - 1] = p[k]

\* String.prototype.includes
Includes(s, p) == \E i \in 1..(Len(s) + 1) : IsAt(s, p, i)

UpperCase == <<"A", "B", "C", "E", "H", "I", "L", "N", "P", "R", "S", "T", "U", "V", "Z">>
LowerCase == <<"a", "b", "c", "e", "h", "i", "l", "n", "p", "r", "s", "t", "u", "v", "z">>

LowerChar(c) ==
  IF \E k \in 1..Len(UpperCase) : UpperCase[k] = c
  THEN LowerCase[CHOOSE k \in 1..Len(UpperCase) : UpperCase[k] = c]
  ELSE c

\* String.prototype.toLowerCase
ToLowerCase(s) == [k \in 1..Len(s) |-> LowerChar(s[k])]

SetMin(S) == CHOOSE x \in S : \A y \in S : x <= y
SetMax(S) == CHOOSE x \in S : \A y \in S : x >= y

Digits == <<"0", "1", "2", "3", "4", "5", "6", "7", "8", "9">>
\* `${code}` of a small exit code
CodeString(code) == <<Digits[code + 1]>>


\* An optional opaque value (an id, a label): undefined or the value.
NoAtom == [has |-> FALSE, val |-> ""]
Atom(v) == [has |-> TRUE, val |-> v]

(***************************************************************************)
(* Request bodies.  A body field is a JavaScript value: its type and, for  *)
(* a string, its text.                                                     *)
(***************************************************************************)
Undefined == [type |-> "undefined", val |-> ""]
Str(v) == [type |-> "string", val |-> v]
NonString == [type |-> "object", val |-> ""]

\* !v for a body field
Falsy(v) == v.type = "undefined" \/ (v.type = "string" /\ v.val = "")

Workspaces == {"W1", "W2"}

\* The ids `new DocumentModel` generates, in the order it generates them.
ObjectIds == [n \in 1..(MaxUploads + 1) |->
                CASE n = 1 -> "65a000000000000000000001"
                  [] n = 2 -> "65a000000000000000000002"
                  [] n = 3 -> "65a000000000000000000003"
                  [] OTHER -> "65a000000000000000000004"]

NoFile == [present |-> FALSE, originalname |-> "", mimetype |-> "", path |-> ""]
ReportPdf == [present |-> TRUE, originalname |-> "report.pdf",
              mimetype |-> "application/pdf", path |-> "uploads/1-report.pdf"]

(***************************************************************************)
(* The external worker process, as runPythonScript sees it: it either      *)
(* cannot be started ("error") or closes with an exit code after writing   *)
(* stdout and stderr.                                                      *)
(***************************************************************************)
Closed(code, out, err) ==
  [event |-> "close", code |-> code, stdout |-> out, stderr |-> err, errmsg |-> <<>>]
NotStarted(msg) ==
  [event |-> "error", code |-> 0, stdout |-> <<>>, stderr |-> <<>>, errmsg |-> msg]

Resolved(v) == [ok |-> TRUE, value |-> v, message |-> <<>>]
Rejected(m) == [ok |-> FALSE, value |-> <<>>, message |-> m]

\* A runPythonScript that resolves whatever the exit code is.
RunPythonScriptIgnoringCode(run) ==
  IF run.event = "error"
  THEN Rejected(<<"Failed to start Python script: ">> \o run.errmsg)
  ELSE Resolved(Trim(run.stdout))

\* server.ts runPythonScript: the promise's outcome for a worker run.
RunPythonScript(run) ==
  IF run.event = "error"
  THEN Rejected(<<"Failed to start Python script: ">> \o run.errmsg)
  ELSE IF run.code = 0
       THEN Resolved(Trim(run.stdout))
       ELSE Rejected(<<"Python script exited with code ">> \o CodeString(run.code)
                       \o <<". Stderr: ">> \o Trim(run.stderr))

SUCCESS == <<"S", "U", "C", "C", "E", "S", "S", ":">>
FAILURE == <<"F", "A", "I", "L", "U", "R", "E", ":">>

\* The positions where /SUCCESS:(.+)$/m can match: the literal, then at
\* least one character that is not a line terminator.
MatchStarts(s) ==
  {i \in 1..Len(s) :
     /\ IsAt(s, SUCCESS, i)
     /\ i + Len(SUCCESS) <= Len(s)
     /\ s[i + Len(SUCCESS)] \notin LineTerminators}

\* The end of the greedy (.+) that starts at position b: the end of b's line.
LineEnd(s, b) ==
  SetMax({j \in b..Len(s) : \A k \in b..j : s[k] \notin LineTerminators})

\* A match that takes the last matching line instead of the first.
SuccessMatchLast(pythonOutput) ==
  IF MatchStarts(pythonOutput) = {}
  THEN None
  ELSE LET b == SetMax(MatchStarts(pythonOutput)) + Len(SUCCESS)
       IN  Some(SubSeq(pythonOutput, b, LineEnd(pythonOutput, b)))

\* pythonOutput.match(/SUCCESS:(.+)$/m): null, or capture group 1 of the
\* leftmost match.
SuccessMatch(pythonOutput) ==
  IF MatchStarts(pythonOutput) = {}
  THEN None
  ELSE LET b == SetMin(MatchStarts(pythonOutput)) + Len(SUCCESS)
       IN  Some(SubSeq(pythonOutput, b, LineEnd(pythonOutput, b)))

(***************************************************************************)
(* The metadata store: the documents collection, keyed by _id.             *)
(***************************************************************************)
\* new DocumentModel({fileName, originalType, processed: false, workspaceId})
NewDocument(file, workspaceId) ==
  [fileName |-> file.originalname, originalType |-> file.mimetype,
   processed |-> FALSE, chromaDocumentId |-> None, workspaceId |-> workspaceId]

\* A second save that writes the flag but not the handle.
SetProcessedFlagOnly(doc, chromaDocId) ==
  [doc EXCEPT !.processed = TRUE]

\* newDocument.processed = true; newDocument.chromaDocumentId = chromaDocId
SetProcessed(doc, chromaDocId) ==
  [doc EXCEPT !.processed = TRUE, !.chromaDocumentId = Some(chromaDocId)]

\* A collection without the unique index: no value is ever refused.
DuplicateKeyNever(store, id, chromaDocId) == FALSE

\* An index that refuses a handle as soon as any other record holds one.
DuplicateKeyAnyHandle(store, id, chromaDocId) ==
  \E other \in DOMAIN store : other # id /\ store[other].chromaDocumentId.has

\* The unique sparse index on chromaDocumentId: another record holds the value.
DuplicateKey(store, id, chromaDocId) ==
  \E other \in DOMAIN store :
     other # id /\ store[other].chromaDocumentId = Some(chromaDocId)

\* An insert that replaces the collection by the new record.
PutAlone(store, id, doc) == [k \in {id} |-> doc]

Put(store, id, doc) ==
  [k \in DOMAIN store \cup {id} |-> IF k = id THEN doc ELSE store[k]]

\* DocumentModel.find({workspaceId}): the ids of the matching records.
FindByWorkspace(store, workspaceId) ==
  {id \in DOMAIN store : store[id].workspaceId = workspaceId}


(***************************************************************************)
(* State.                                                                  *)
(***************************************************************************)
VARIABLES
  docs,      \* the documents collection: _id -> record
  generated, \* how many ObjectIds `new DocumentModel` has generated
  uploads,   \* the POST /api/universal-upload requests
  queries,   \* the POST /api/universal-qa requests
  listing,   \* the last response of GET /api/workspaces/:workspaceId/documents
  process    \* the server process: its environment and how far startup has come

vars == <<docs, generated, uploads, queries, listing, process>>

(***************************************************************************)
(* The server process: the top level of server.ts, connectDB and           *)
(* connectMySQL.                                                           *)
(***************************************************************************)
MaxPings == 2

\* What the process finds when it starts: GEMINI_API_KEY and MONGO_URI set or
\* not, MongoDB and MySQL reachable or not.
Envs == [geminiKey : BOOLEAN, mongoUri : BOOLEAN, mongoUp : BOOLEAN, mysqlUp : BOOLEAN]

Launching(env) ==
  [state |-> "loading", mongo |-> "idle", mysql |-> "idle", env |-> env, pings |-> 0]

\* Startup is over: the server listens and both stores are connected.
Serving ==
  [state |-> "listening", mongo |-> "connected", mysql |-> "synced",
   env |-> [geminiKey |-> TRUE, mongoUri |-> TRUE, mongoUp |-> TRUE, mysqlUp |-> TRUE],
   pings |-> 0]

\* process.exit(1)
Exit(proc) == [proc EXCEPT !.state = "exited"]

\* The top level of server.ts runs to its end: connectDB() up to its first
\* await (a missing MONGO_URI throws into its catch block at once),
\* connectMySQL() up to its first await, the test of GEMINI_API_KEY, which
\* only logs, and app.listen.
Load ==
  /\ process.state = "loading"
  /\ process' = IF ~process.env.mongoUri
                THEN Exit(process)
                ELSE [process EXCEPT !.state = "listening", !.mongo = "connecting",
                                     !.mysql = "connecting"]
  /\ UNCHANGED <<docs, generated, uploads, queries, listing>>

\* await mongoose.connect settles.
ConnectDB ==
  /\ process.state = "listening"
  /\ process.mongo = "connecting"
  /\ process' = IF process.env.mongoUp
                THEN [process EXCEPT !.mongo = "connected"]
                ELSE Exit(process)
  /\ UNCHANGED <<docs, generated, uploads, queries, listing>>

\* await sequelize.authenticate settles.
ConnectMySQL ==
  /\ process.state = "listening"
  /\ process.mysql = "connecting"
  /\ process' = IF process.env.mysqlUp
                THEN [process EXCEPT !.mysql = "connected"]
                ELSE Exit(process)
  /\ UNCHANGED <<docs, generated, uploads, queries, listing>>

\* The callback of connectMySQL().then: sync and the placeholder user, or exit.
SyncMySQL(synced) ==
  /\ process.state = "listening"
  /\ process.mysql = "connected"
  /\ process' = IF synced THEN [process EXCEPT !.mysql = "synced"] ELSE Exit(process)
  /\ UNCHANGED <<docs, generated, uploads, queries, listing>>

\* GET /: answered without any store.
Ping ==
  /\ process.state = "listening"
  /\ process.pings < MaxPings
  /\ process' = [process EXCEPT !.pings = @ + 1]
  /\ UNCHANGED <<docs, generated, uploads, queries, listing>>

(***************************************************************************)
(* POST /api/universal-upload                                              *)
(***************************************************************************)
NoSpawn == [has |-> FALSE, command |-> "", filePath |-> "", mimeType |-> "", documentId |-> ""]

NoUploadResponse ==
  [status |-> 0, message |-> "", documentId |-> NoAtom, chromaDocumentId |-> None,
   error |-> None]

IdleUpload ==
  [pc |-> "idle", file |-> NoFile, workspaceId |-> Undefined, docId |-> NoAtom,
   spawned |-> NoSpawn, ran |-> FALSE, run |-> NotStarted(<<>>),
   chromaDocId |-> None, res |-> NoUploadResponse]

UploadBadRequest(message) ==
  [status |-> 400, message |-> message, documentId |-> NoAtom,
   chromaDocumentId |-> None, error |-> None]

\* A catch block that also returns the id of the record it created.
UploadFailureWithId(req, message) ==
  [status |-> 500, message |-> "Error processing file", documentId |-> req.docId,
   chromaDocumentId |-> None, error |-> Some(message)]

\* The catch block: res.status(500).json({message, error: error.message})
UploadFailure(req, message) ==
  [status |-> 500, message |-> "Error processing file", documentId |-> NoAtom,
   chromaDocumentId |-> None, error |-> Some(message)]

\* res.status(200).json({message, documentId, chromaDocumentId})
UploadSuccess(req) ==
  [status |-> 200, message |-> "File uploaded and processed successfully!",
   documentId |-> req.docId, chromaDocumentId |-> req.chromaDocId, error |-> None]

\* The arguments of the embedding worker.
EmbedArgs(req) ==
  [has |-> TRUE, command |-> "embed_document", filePath |-> req.file.path,
   mimeType |-> req.file.mimetype, documentId |-> req.docId.val]

StoreUnavailable == <<"MongoNetworkError: connection closed">>
DuplicateKeyError == <<"E11000 duplicate key error collection: documents index: chromaDocumentId_1">>

\* A handler that tests the workspace id for absence only, not for its type.
UploadReceiveAnyType(u, file, workspaceId) ==
  /\ uploads[u].pc = "idle"
  /\ \A earlier \in 1..(u - 1) : uploads[earlier].pc # "idle"
  /\ IF ~file.present
     THEN /\ uploads' = [uploads EXCEPT ![u] =
                 [@ EXCEPT !.pc = "done", !.file = file, !.workspaceId = workspaceId,
                           !.res = UploadBadRequest("No file uploaded.")]]
          /\ UNCHANGED generated
     ELSE IF Falsy(workspaceId)
     THEN /\ uploads' = [uploads EXCEPT ![u] =
                 [@ EXCEPT !.pc = "done", !.file = file, !.workspaceId = workspaceId,
                           !.res = UploadBadRequest("Workspace ID is required.")]]
          /\ UNCHANGED generated
     ELSE /\ uploads' = [uploads EXCEPT ![u] =
                 [@ EXCEPT !.pc = "saving", !.file = file, !.workspaceId = workspaceId,
                           !.docId = Atom(ObjectIds[generated + 1])]]
          /\ generated' = generated + 1
  /\ UNCHANGED <<docs, queries, listing>>

\* The request arrives: the two validations, then `new DocumentModel` and the
\* first save is issued.  Requests are numbered in the order they arrive.
UploadReceive(u, file, workspaceId) ==
  /\ uploads[u].pc = "idle"
  /\ \A earlier \in 1..(u - 1) : uploads[earlier].pc # "idle"
  /\ IF ~file.present
     THEN /\ uploads' = [uploads EXCEPT ![u] =
                 [@ EXCEPT !.pc = "done", !.file = file, !.workspaceId = workspaceId,
                           !.res = UploadBadRequest("No file uploaded.")]]
          /\ UNCHANGED generated
     ELSE IF Falsy(workspaceId) \/ workspaceId.type # "string"
     THEN /\ uploads' = [uploads EXCEPT ![u] =
                 [@ EXCEPT !.pc = "done", !.file = file, !.workspaceId = workspaceId,
                           !.res = UploadBadRequest("Workspace ID is required.")]]
          /\ UNCHANGED generated
     ELSE /\ uploads' = [uploads EXCEPT ![u] =
                 [@ EXCEPT !.pc = "saving", !.file = file, !.workspaceId = workspaceId,
                           !.docId = Atom(ObjectIds[generated + 1])]]
          /\ generated' = generated + 1
  /\ UNCHANGED <<docs, queries, listing>>

\* A handler that starts the worker although the first save failed.
UploadSavePendingSpawnAnyway(u, stored) ==
  /\ uploads[u].pc = "saving"
  /\ uploads' = [uploads EXCEPT ![u] =
        [@ EXCEPT !.pc = "embedding", !.spawned = EmbedArgs(uploads[u])]]
  /\ docs' = IF stored
             THEN Put(docs, uploads[u].docId.val,
                      NewDocument(uploads[u].file, uploads[u].workspaceId.val))
             ELSE docs
  /\ UNCHANGED <<generated, queries, listing>>

\* await newDocument.save() settles: the pending record is inserted and the
\* embedding worker is spawned, or the save throws into the catch block.
UploadSavePending(u, stored) ==
  /\ uploads[u].pc = "saving"
  /\ IF stored
     THEN /\ docs' = Put(docs, uploads[u].docId.val,
                         NewDocument(uploads[u].file, uploads[u].workspaceId.val))
          /\ uploads' = [uploads EXCEPT ![u] =
                [@ EXCEPT !.pc = "embedding", !.spawned = EmbedArgs(uploads[u])]]
     ELSE /\ uploads' = [uploads EXCEPT ![u] =
                [@ EXCEPT !.pc = "done",
                          !.res = UploadFailure(uploads[u], StoreUnavailable)]]
          /\ UNCHANGED docs
  /\ UNCHANGED <<generated, queries, listing>>

\* await runPythonScript settles: the output is matched and the second save is
\* issued, or the handler throws into the catch block.
UploadWorkerDone(u, run) ==
  /\ uploads[u].pc = "embedding"
  /\ LET outcome == RunPythonScript(run)
         successMatch == SuccessMatch(outcome.value)
         req == [uploads[u] EXCEPT !.ran = TRUE, !.run = run]
     IN  uploads' = [uploads EXCEPT ![u] =
           IF ~outcome.ok
           THEN [req EXCEPT !.pc = "done", !.res = UploadFailure(req, outcome.message)]
           ELSE IF successMatch.has
           THEN [req EXCEPT !.pc = "marking", !.chromaDocId = Some(Trim(successMatch.val))]
           ELSE [req EXCEPT !.pc = "done",
                            !.res = UploadFailure(req,
                                 <<"Python processing failed: ">> \o outcome.value)]]
  /\ UNCHANGED <<docs, generated, queries, listing>>

\* The second await newDocument.save() settles: one update of the record sets
\* both fields, unless the store or its unique index refuses it.
UploadMarkProcessed(u, reachable) ==
  /\ uploads[u].pc = "marking"
  /\ LET id == uploads[u].docId.val
         chromaDocId == uploads[u].chromaDocId.val
     IN  IF ~reachable
         THEN /\ uploads' = [uploads EXCEPT ![u] =
                    [@ EXCEPT !.pc = "done",
                              !.res = UploadFailure(uploads[u], StoreUnavailable)]]
              /\ UNCHANGED docs
         ELSE IF DuplicateKey(docs, id, chromaDocId)
         THEN /\ uploads' = [uploads EXCEPT ![u] =
                    [@ EXCEPT !.pc = "done",
                              !.res = UploadFailure(uploads[u], DuplicateKeyError)]]
              /\ UNCHANGED docs
         ELSE /\ docs' = [docs EXCEPT ![id] = SetProcessed(@, chromaDocId)]
              /\ uploads' = [uploads EXCEPT ![u] =
                    [@ EXCEPT !.pc = "done", !.res = UploadSuccess(uploads[u])]]
  /\ UNCHANGED <<generated, queries, listing>>

(***************************************************************************)
(* GET /api/workspaces/:workspaceId/documents                              *)
(***************************************************************************)
NoListing == [status |-> 0, workspaceId |-> "", documents |-> {}]

ListDocuments(workspaceId, reachable) ==
  /\ listing' =
       IF reachable
       THEN [status |-> 200, workspaceId |-> workspaceId,
             documents |-> {[id |-> id, doc |-> docs[id]] :
                              id \in FindByWorkspace(docs, workspaceId)}]
       ELSE [status |-> 500, workspaceId |-> workspaceId, documents |-> {}]
  /\ UNCHANGED <<docs, generated, uploads, queries>>


(***************************************************************************)
(* POST /api/universal-qa                                                  *)
(***************************************************************************)
NoIds == [given |-> FALSE, ids |-> <<>>]
Ids(seq) == [given |-> TRUE, ids |-> seq]

Range(seq) == {seq[k] : k \in 1..Len(seq)}

\* The position of an id in generation order: find returns records in
\* insertion order.
Position(id) == CHOOSE n \in DOMAIN ObjectIds : ObjectIds[n] = id

RECURSIVE InOrder(_)
InOrder(ids) ==
  IF ids = {}
  THEN <<>>
  ELSE LET first == CHOOSE id \in ids : \A other \in ids : Position(id) <= Position(other)
       IN  <<first>> \o InOrder(ids \ {first})

\* Casting a string to ObjectId throws unless it is 24 hex digits.
IsObjectId(id) == id \in Range(ObjectIds)

\* A find that does not filter by workspace.
FindProcessedAnyWorkspace(store, documentIds, workspaceId) ==
  {id \in DOMAIN store :
     /\ Len(documentIds.ids) > 0 => id \in Range(documentIds.ids)
     /\ store[id].processed}

\* DocumentModel.find({_id: {$in: documentIds}, workspaceId, processed: true})
\* when ids are given, DocumentModel.find({workspaceId, processed: true})
\* otherwise.
FindProcessed(store, documentIds, workspaceId) ==
  {id \in DOMAIN store :
     /\ Len(documentIds.ids) > 0 => id \in Range(documentIds.ids)
     /\ store[id].workspaceId = workspaceId
     /\ store[id].processed}

\* The handles of the found records without the filter.
ChromaDocumentIdsUnfiltered(store, found) ==
  LET ordered == InOrder(found)
  IN  [k \in 1..Len(ordered) |-> store[ordered[k]].chromaDocumentId.val]

\* documents.map((doc) => doc.chromaDocumentId!).filter(Boolean)
ChromaDocumentIds(store, found) ==
  LET ordered == InOrder(found)
      kept == SelectSeq([k \in 1..Len(ordered) |-> store[ordered[k]].chromaDocumentId],
                        Truthy)
  IN  [k \in 1..Len(kept) |-> kept[k].val]

(***************************************************************************)
(* JSON.parse of the retrieval worker's output.  The outputs the model     *)
(* draws are whole texts; each is parsed to the value JSON.parse gives.    *)
(***************************************************************************)
Chunk(text, source) == [text |-> Atom(text), source |-> Atom(source)]
\* An array element without the two properties, such as a string.
NoChunk == [text |-> NoAtom, source |-> NoAtom]

NoLength == 0 - 1
JsonThrows == [throws |-> TRUE, type |-> "", items |-> <<>>, length |-> NoLength]
JsonArray(items) == [throws |-> FALSE, type |-> "array", items |-> items, length |-> Len(items)]
JsonString(n) == [throws |-> FALSE, type |-> "string", items |-> <<>>, length |-> n]
JsonObject(length) == [throws |-> FALSE, type |-> "object", items |-> <<>>, length |-> length]
JsonNull == [throws |-> FALSE, type |-> "null", items |-> <<>>, length |-> NoLength]

JsonParse(text) ==
  CASE text = <<"[]">> -> JsonArray(<<>>)
    [] text = <<"[{\"text\":\"Revenue was $5M\",\"source\":\"vec123\"}]">> ->
         JsonArray(<<Chunk("Revenue was $5M", "vec123")>>)
    [] text = <<"[{\"text\":\"a\",\"source\":\"S1\"},{\"text\":\"b\",\"source\":\"S2\"}]">> ->
         JsonArray(<<Chunk("a", "S1"), Chunk("b", "S2")>>)
    [] text = <<"[{\"text\":\"a\",\"source\":\"S2\"},{\"text\":\"b\",\"source\":\"S1\"},{\"text\":\"c\",\"source\":\"S2\"}]">> ->
         JsonArray(<<Chunk("a", "S2"), Chunk("b", "S1"), Chunk("c", "S2")>>)
    [] text = <<"[\"Revenue was $5M\",\"b\"]">> -> JsonArray(<<NoChunk, NoChunk>>)
    [] text = <<"\"\"">> -> JsonString(0)
    [] text = <<"\"no results\"">> -> JsonString(10)
    [] text = <<"{\"length\":0}">> -> JsonObject(0)
    [] text = <<"{\"error\":\"collection not found\"}">> -> JsonObject(NoLength)
    [] text = <<"null">> -> JsonNull
    [] OTHER -> JsonThrows

JsonSyntaxError == <<"Unexpected token in JSON">>
NullLengthError == <<"Cannot read properties of null (reading 'length')">>
MapTypeError == <<"relevantChunks.map is not a function">>

ApiKeyNotValid == <<"A", "P", "I", " ", "k", "e", "y", " ", "n", "o", "t", " ", "v", "a", "l", "i", "d">>

NoQuerySpawn == [has |-> FALSE, command |-> "", query |-> "", handles |-> <<>>]
NoPrompt == [has |-> FALSE, context |-> <<>>, query |-> ""]

NoQueryResponse ==
  [status |-> 0, message |-> "", answer |-> None, citations |-> <<>>,
   nextSteps |-> <<>>, chartData |-> NoAtom, error |-> None]

IdleQuery ==
  [pc |-> "idle", query |-> Undefined, workspaceId |-> Undefined, documentIds |-> NoIds,
   resolved |-> FALSE, found |-> {}, chromaDocumentIds |-> <<>>, spawned |-> NoQuerySpawn,
   ran |-> FALSE, run |-> NotStarted(<<>>), relevantChunks |-> JsonThrows,
   prompt |-> NoPrompt, res |-> NoQueryResponse]

QueryBadRequest(message) == [NoQueryResponse EXCEPT !.status = 400, !.message = message]

\* The catch block of the query handler.
QueryFailure(message) ==
  IF Includes(message, ApiKeyNotValid)
  THEN [NoQueryResponse EXCEPT !.status = 401,
          !.message = "Gemini API key is invalid or not configured."]
  ELSE [NoQueryResponse EXCEPT !.status = 500,
          !.message = "Error getting AI response", !.error = Some(message)]

InsufficientAnswer == <<"I couldn't find relevant information in the uploaded documents for your query. Please try rephrasing or upload more relevant files.">>

\* The response for zero retrieved passages.
QueryNoChunks ==
  [NoQueryResponse EXCEPT !.status = 200, !.answer = Some(InsufficientAnswer)]

\* A chart hint computed with the tests in the opposite order, so that the
\* bar chart hint is the last one assigned.
ChartDataPieFirst(aiAnswer) ==
  LET lower == ToLowerCase(aiAnswer)
  IN  IF Includes(lower, <<"c", "h", "a", "r", "t">>) \/ Includes(lower, <<"v", "i", "s", "u", "a", "l", "i", "z", "e">>)
      THEN IF Includes(lower, <<"b", "a", "r", " ", "c", "h", "a", "r", "t">>)
           THEN Atom("Bar chart showing comparison.")
           ELSE IF Includes(lower, <<"l", "i", "n", "e", " ", "c", "h", "a", "r", "t">>)
           THEN Atom("Line chart showing trends over time.")
           ELSE IF Includes(lower, <<"p", "i", "e", " ", "c", "h", "a", "r", "t">>)
           THEN Atom("Pie chart showing proportions.")
           ELSE Atom("A chart showing data from the context would be beneficial.")
      ELSE NoAtom

ChartData(aiAnswer) ==
  LET lower == ToLowerCase(aiAnswer)
  IN  IF Includes(lower, <<"c", "h", "a", "r", "t">>) \/ Includes(lower, <<"v", "i", "s", "u", "a", "l", "i", "z", "e">>)
      THEN IF Includes(lower, <<"p", "i", "e", " ", "c", "h", "a", "r", "t">>)
           THEN Atom("Pie chart showing proportions.")
           ELSE IF Includes(lower, <<"l", "i", "n", "e", " ", "c", "h", "a", "r", "t">>)
           THEN Atom("Line chart showing trends over time.")
           ELSE IF Includes(lower, <<"b", "a", "r", " ", "c", "h", "a", "r", "t">>)
           THEN Atom("Bar chart showing comparison.")
           ELSE Atom("A chart showing data from the context would be beneficial.")
      ELSE NoAtom

NextSteps(aiAnswer) ==
  LET lower == ToLowerCase(aiAnswer)
  IN  IF Includes(lower, <<"s", "u", "g", "g", "e", "s", "t", "e", "d", " ", "n", "e", "x", "t", " ", "s", "t", "e", "p", "s">>)
      THEN <<"Review the detailed report.", "Discuss findings with the team.">>
      ELSE IF Includes(lower, <<"f", "u", "r", "t", "h", "e", "r", " ", "a", "n", "a", "l", "y", "s", "i", "s">>)
      THEN <<"Perform further analysis on identified areas.">>
      ELSE <<>>

\* Citations without repeated sources.
RECURSIVE CitationsDeduplicated(_)
CitationsDeduplicated(relevantChunks) ==
  IF relevantChunks = <<>>
  THEN <<>>
  ELSE LET front == SubSeq(relevantChunks, 1, Len(relevantChunks) - 1)
           last == relevantChunks[Len(relevantChunks)]
       IN  IF \E k \in 1..Len(front) : front[k].source = last.source
           THEN CitationsDeduplicated(front)
           ELSE CitationsDeduplicated(front) \o <<last.source>>

\* relevantChunks.map(chunk => chunk.source)
Citations(relevantChunks) ==
  [k \in 1..Len(relevantChunks) |-> relevantChunks[k].source]

\* relevantChunks.map(chunk => chunk.text), to be joined by blank lines
Context(relevantChunks) ==
  [k \in 1..Len(relevantChunks) |-> relevantChunks[k].text]

QuerySuccess(aiAnswer, relevantChunks) ==
  [status |-> 200, message |-> "", answer |-> Some(aiAnswer),
   citations |-> Citations(relevantChunks), nextSteps |-> NextSteps(aiAnswer),
   chartData |-> ChartData(aiAnswer), error |-> None]

\* The result of geminiModel.generateContent and response.text().
Generated(text) == [ok |-> TRUE, text |-> text, message |-> <<>>]
GenerateFailed(message) == [ok |-> FALSE, text |-> <<>>, message |-> message]


CastError == <<"Cast to ObjectId failed for value at path _id for model Document">>

\* The request arrives: the two validations, then the find is issued.
\* Requests are numbered in the order they arrive.
QueryReceive(q, query, workspaceId, documentIds) ==
  /\ queries[q].pc = "idle"
  /\ \A earlier \in 1..(q - 1) : queries[earlier].pc # "idle"
  /\ LET req == [queries[q] EXCEPT !.query = query, !.workspaceId = workspaceId,
                                   !.documentIds = documentIds]
     IN  queries' = [queries EXCEPT ![q] =
           IF Falsy(query)
           THEN [req EXCEPT !.pc = "done", !.res = QueryBadRequest("Query is required.")]
           ELSE IF Falsy(workspaceId)
           THEN [req EXCEPT !.pc = "done",
                            !.res = QueryBadRequest("Workspace ID is required.")]
           ELSE [req EXCEPT !.pc = "finding"]]
  /\ UNCHANGED <<docs, generated, uploads, listing>>

\* await DocumentModel.find settles: the candidate handles are collected and
\* the retrieval worker is spawned, or the request ends with 400 or in the
\* catch block.
QueryFind(q, reachable) ==
  /\ queries[q].pc = "finding"
  /\ LET req == queries[q]
         explicit == Len(req.documentIds.ids) > 0
         found == FindProcessed(docs, req.documentIds, req.workspaceId.val)
         chromaDocumentIds == ChromaDocumentIds(docs, found)
     IN  queries' = [queries EXCEPT ![q] =
           IF explicit /\ \E id \in Range(req.documentIds.ids) : ~IsObjectId(id)
           THEN [req EXCEPT !.pc = "done", !.res = QueryFailure(CastError)]
           ELSE IF ~reachable
           THEN [req EXCEPT !.pc = "done", !.res = QueryFailure(StoreUnavailable)]
           ELSE IF chromaDocumentIds = <<>>
           THEN [req EXCEPT !.pc = "done", !.resolved = TRUE, !.found = found,
                   !.res = QueryBadRequest(
                      IF explicit
                      THEN "No processed documents found for the provided IDs."
                      ELSE "No documents have been processed yet. Please upload a file first.")]
           ELSE [req EXCEPT !.pc = "retrieving", !.resolved = TRUE, !.found = found,
                   !.chromaDocumentIds = chromaDocumentIds,
                   !.spawned = [has |-> TRUE, command |-> "query_documents",
                                query |-> req.query.val, handles |-> chromaDocumentIds]]]
  /\ UNCHANGED <<docs, generated, uploads, listing>>

\* A check for zero passages that never fires.
ZeroPassagesNever(relevantChunks) == FALSE

\* relevantChunks.length === 0
ZeroPassages(relevantChunks) == relevantChunks.length = 0

\* The handler between the retrieval worker's end and the LLM call: parse the
\* output, answer at once for zero passages, else build the prompt.
AfterRetrieval(req, run) ==
  LET outcome == RunPythonScript(run)
      parsed == JsonParse(outcome.value)
      ran == [req EXCEPT !.ran = TRUE, !.run = run]
  IN  IF ~outcome.ok
      THEN [ran EXCEPT !.pc = "done", !.res = QueryFailure(outcome.message)]
      ELSE IF parsed.throws
      THEN [ran EXCEPT !.pc = "done", !.res = QueryFailure(JsonSyntaxError)]
      ELSE IF parsed.type = "null"
      THEN [ran EXCEPT !.pc = "done", !.relevantChunks = parsed,
              !.res = QueryFailure(NullLengthError)]
      ELSE IF ZeroPassages(parsed)
      THEN [ran EXCEPT !.pc = "done", !.relevantChunks = parsed, !.res = QueryNoChunks]
      ELSE IF parsed.type # "array"
      THEN [ran EXCEPT !.pc = "done", !.relevantChunks = parsed,
              !.res = QueryFailure(MapTypeError)]
      ELSE [ran EXCEPT !.pc = "generating", !.relevantChunks = parsed,
              !.prompt = [has |-> TRUE, context |-> Context(parsed.items),
                          query |-> req.query.val]]

\* await runPythonScript settles in the query handler.
QueryWorkerDone(q, run) ==
  /\ queries[q].pc = "retrieving"
  /\ queries' = [queries EXCEPT ![q] = AfterRetrieval(queries[q], run)]
  /\ UNCHANGED <<docs, generated, uploads, listing>>

\* await geminiModel.generateContent settles: the answer is post-processed
\* and returned, or the error is caught.
QueryGenerated(q, result) ==
  /\ queries[q].pc = "generating"
  /\ queries' = [queries EXCEPT ![q] =
        [@ EXCEPT !.pc = "done",
                  !.res = IF result.ok
                          THEN QuerySuccess(result.text, queries[q].relevantChunks.items)
                          ELSE QueryFailure(result.message)]]
  /\ UNCHANGED <<docs, generated, uploads, listing>>

(***************************************************************************)
(* The inputs the model draws.                                             *)
(***************************************************************************)
V1 == <<"v", "1">>
V2 == <<"v", "2">>

\* Runs of the embedding worker.
EmbedRuns ==
  { Closed(0, SUCCESS \o V1 \o <<"\n">>, <<>>),
    Closed(0, SUCCESS \o V2 \o <<"\n">>, <<>>),
    Closed(0, <<"o", "k", "\n">> \o SUCCESS \o <<" ">> \o V2 \o <<" ", "\n">>, <<>>),
    Closed(0, SUCCESS \o V1 \o <<"\n">> \o SUCCESS \o V2 \o <<"\n">>, <<>>),
    Closed(0, FAILURE \o <<"n", "o", " ">> \o SUCCESS \o V1 \o <<"\n">>, <<>>),
    Closed(0, SUCCESS \o <<" ", "\n", "o", "k", "\n">>, <<>>),
    Closed(0, SUCCESS \o <<" ", "\n">>, <<>>),
    Closed(0, FAILURE \o <<"b", "a", "d", "\n">>, <<>>),
    Closed(0, <<>>, <<>>),
    Closed(1, SUCCESS \o V1 \o <<"\n">>, <<"e", "r", "r", "\n">>),
    Closed(1, <<>>, <<"e", "r", "r", "\n">>),
    NotStarted(<<"spawn python ENOENT">>) }

\* Runs of the retrieval worker.
RetrievalRuns ==
  { Closed(0, <<"[]">>, <<>>),
    Closed(0, <<"[{\"text\":\"Revenue was $5M\",\"source\":\"vec123\"}]">>, <<>>),
    Closed(0, <<"[{\"text\":\"a\",\"source\":\"S1\"},{\"text\":\"b\",\"source\":\"S2\"}]">>, <<>>),
    Closed(0, <<"[{\"text\":\"a\",\"source\":\"S2\"},{\"text\":\"b\",\"source\":\"S1\"},{\"text\":\"c\",\"source\":\"S2\"}]">>, <<>>),
    Closed(0, <<"[\"Revenue was $5M\",\"b\"]">>, <<>>),
    Closed(0, <<"\"\"">>, <<>>),
    Closed(0, <<"\"no results\"">>, <<>>),
    Closed(0, <<"{\"length\":0}">>, <<>>),
    Closed(0, <<"{\"error\":\"collection not found\"}">>, <<>>),
    Closed(0, <<"null">>, <<>>),
    Closed(0, <<"Traceback (most recent call last)">>, <<>>),
    Closed(0, <<>>, <<>>),
    Closed(1, <<"[]">>, <<"e", "r", "r", "\n">>),
    Closed(1, <<>>, <<"chromadb: ">> \o ApiKeyNotValid \o <<"\n">>),
    NotStarted(<<"spawn python ENOENT">>) }

\* Outcomes of the LLM call.
Generations ==
  { Generated(<<"R", "e", "v", "e", "n", "u", "e", " ", "w", "a", "s", " ", "$", "5", "M">>),
    Generated(<<"A", " ", "P", "i", "e", " ", "C", "h", "a", "r", "t", " ", "f", "i", "t", "s", ";", " ", "s", "u", "g", "g", "e", "s", "t", "e", "d", " ", "n", "e", "x", "t", " ", "s", "t", "e", "p", "s">>),
    Generated(<<"S", "e", "e", " ", "t", "h", "e", " ", "f", "l", "o", "w", "c", "h", "a", "r", "t">>),
    GenerateFailed(<<"[GoogleGenerativeAI Error]: ">> \o ApiKeyNotValid
                     \o <<". Please pass a valid API key.">>),
    GenerateFailed(<<"fetch failed">>) }

UploadFiles == {NoFile, ReportPdf}
UploadWorkspaceIds == {Str(w) : w \in Workspaces} \cup {Undefined, Str(""), NonString}

QueryTexts == {Str("What is the revenue?"), Str("Who is the owner?"), Undefined}
QueryWorkspaceIds == {Str(w) : w \in Workspaces} \cup {Undefined}
QueryDocumentIds ==
  { NoIds, Ids(<<>>), Ids(<<ObjectIds[1]>>), Ids(<<ObjectIds[2], ObjectIds[1]>>),
    Ids(<<"not-an-object-id">>) }

(***************************************************************************)
(* Specification.                                                          *)
(***************************************************************************)
NoRequests ==
  /\ docs = <<>>
  /\ generated = 0
  /\ uploads = [u \in Uploads |-> IdleUpload]
  /\ queries = [q \in Queries |-> IdleQuery]
  /\ listing = NoListing

\* The server is up and no request has arrived yet.
Init ==
  /\ NoRequests
  /\ process = Serving

\* The steps of the upload handler, for given sets of inputs.
UploadNext(files, workspaceIds, storeOutcomes, runs) ==
  /\ process.state = "listening"
  /\ UNCHANGED process
  /\ \/ \E u \in Uploads, file \in files, workspaceId \in workspaceIds :
           UploadReceive(u, file, workspaceId)
     \/ \E u \in Uploads, stored \in storeOutcomes : UploadSavePending(u, stored)
     \/ \E u \in Uploads, run \in runs : UploadWorkerDone(u, run)
     \/ \E u \in Uploads, reachable \in storeOutcomes : UploadMarkProcessed(u, reachable)

ListNext(storeOutcomes) ==
  /\ process.state = "listening"
  /\ UNCHANGED process
  /\ \E workspaceId \in Workspaces, reachable \in storeOutcomes :
        ListDocuments(workspaceId, reachable)

\* The steps of the query handler, for given sets of inputs.
QueryNext(texts, workspaceIds, documentIdLists, storeOutcomes, runs, results) ==
  /\ process.state = "listening"
  /\ UNCHANGED process
  /\ \/ \E q \in Queries, query \in texts, workspaceId \in workspaceIds,
           documentIds \in documentIdLists :
           QueryReceive(q, query, workspaceId, documentIds)
     \/ \E q \in Queries, reachable \in storeOutcomes : QueryFind(q, reachable)
     \/ \E q \in Queries, run \in runs : QueryWorkerDone(q, run)
     \/ \E q \in Queries, result \in results : QueryGenerated(q, result)

\* Concurrent uploads and listings, with every input of the upload handler.
Next ==
  \/ UploadNext(UploadFiles, UploadWorkspaceIds, BOOLEAN, EmbedRuns)
  \/ ListNext(BOOLEAN)

Spec == Init /\ [][Next]_vars

\* Well-formed uploads whose workers succeed: they fill the store with
\* pending and processed records of both workspaces, with equal handles
\* refused by the index and with an empty handle.
SeedRuns ==
  { Closed(0, SUCCESS \o V1 \o <<"\n">>, <<>>),
    Closed(0, SUCCESS \o V2 \o <<"\n">>, <<>>),
    Closed(0, SUCCESS \o <<" ", "\n", "o", "k", "\n">>, <<>>),
    Closed(1, <<>>, <<"e", "r", "r", "\n">>) }

SeedFiles == {ReportPdf}
SeedWorkspaceIds == {Str(w) : w \in Workspaces}

SeedNext == UploadNext(SeedFiles, SeedWorkspaceIds, {TRUE}, SeedRuns)

\* Concurrent uploads and queries, with every input of the query handler.
QueryingNext ==
  \/ SeedNext
  \/ QueryNext(QueryTexts, QueryWorkspaceIds, QueryDocumentIds, BOOLEAN,
               RetrievalRuns, Generations)

QuerySpec == Init /\ [][QueryingNext]_vars

\* Concurrent uploads, listings and queries of both workspaces, with the
\* inputs that decide which records a listing or a query reads.
ScopedTexts == {Str("What is the revenue?")}
ScopedDocumentIds == {NoIds, Ids(<<ObjectIds[1]>>), Ids(<<ObjectIds[2], ObjectIds[1]>>)}
ScopedRuns == {Closed(0, <<"[{\"text\":\"Revenue was $5M\",\"source\":\"vec123\"}]">>, <<>>)}
ScopedGenerations == {Generated(<<"o", "k">>)}

ScopedNext ==
  \/ SeedNext
  \/ ListNext({TRUE})
  \/ QueryNext(ScopedTexts, SeedWorkspaceIds, ScopedDocumentIds, {TRUE},
               ScopedRuns, ScopedGenerations)

ScopeSpec == Init /\ [][ScopedNext]_vars

(***************************************************************************)
(* Properties of the upload pipeline.                                      *)
(***************************************************************************)
RECURSIVE Lines(_)
\* The lines of a text.
Lines(s) ==
  IF \A k \in 1..Len(s) : s[k] # "\n"
  THEN <<s>>
  ELSE LET n == SetMin({k \in 1..Len(s) : s[k] = "\n"})
       IN  <<SubSeq(s, 1, n - 1)>> \o Lines(SubSeq(s, n + 1, Len(s)))

\* A line of the form SUCCESS:<handle>.
IsSuccessLine(line) == IsAt(line, SUCCESS, 1) /\ Len(line) > Len(SUCCESS)

HasSuccessLine(stdout) == \E k \in 1..Len(Lines(stdout)) : IsSuccessLine(Lines(stdout)[k])

\* The worker could not be started, exited non-zero, or printed nothing that
\* carries the SUCCESS: marker.
WorkerFailed(run) ==
  \/ run.event = "error"
  \/ run.code # 0
  \/ ~Includes(run.stdout, SUCCESS)

ListedPending(id) ==
  [id |-> id, doc |-> docs[id]] \in listing.documents /\ ~docs[id].processed

\* C1: in every state of the store, and in every listing read from it while
\* uploads run concurrently, a record has a chromaDocumentId exactly if its
\* processed flag is true.
C1_HandleIffProcessed ==
  /\ \A id \in DOMAIN docs : docs[id].processed <=> docs[id].chromaDocumentId.has
  /\ \A e \in listing.documents : e.doc.processed <=> e.doc.chromaDocumentId.has

\* A listing shows a processed record and a pending one while another upload
\* is about to mark its record.
C1_Witness ==
  /\ \E e \in listing.documents : e.doc.processed /\ e.doc.chromaDocumentId.has
  /\ \E e \in listing.documents : ~e.doc.processed
  /\ \E u \in Uploads : uploads[u].pc = "marking"

C4_PersistThenEmbed ==
  \A u \in Uploads :
     /\ uploads[u].spawned.has =>
          /\ uploads[u].docId.val \in DOMAIN docs
          /\ uploads[u].spawned.documentId = uploads[u].docId.val
          /\ uploads[u].spawned.command = "embed_document"
     /\ uploads[u].pc = "embedding" => ~docs[uploads[u].docId.val].processed
     /\ uploads[u].docId.has /\ uploads[u].pc # "saving"
          /\ uploads[u].docId.val \notin DOMAIN docs =>
          ~uploads[u].spawned.has /\ ~uploads[u].ran /\ uploads[u].res.status = 500

\* One request's worker is running on its persisted record while another
\* request's first save has failed.
C4_Witness ==
  /\ \E u \in Uploads : uploads[u].pc = "embedding" /\ uploads[u].spawned.has
  /\ \E u \in Uploads :
        /\ uploads[u].pc = "done"
        /\ uploads[u].docId.has
        /\ uploads[u].docId.val \notin DOMAIN docs

\* C9, as the claim states it: the upload succeeds only if the worker exited
\* with code 0 and printed a line of the form SUCCESS:<handle>; after any
\* other run the request fails and the record is not marked processed.
C9_SuccessOnlyOnSuccessLine ==
  \A u \in Uploads :
     uploads[u].ran =>
       LET run == uploads[u].run
           success == run.event = "close" /\ run.code = 0 /\ HasSuccessLine(run.stdout)
       IN  /\ uploads[u].res.status = 200 \/ docs[uploads[u].docId.val].processed
                => success
           /\ ~success /\ uploads[u].pc = "done" =>
                /\ uploads[u].res.status = 500
                /\ ~docs[uploads[u].docId.val].processed

(***************************************************************************)
(* Properties of listings and queries.                                     *)
(***************************************************************************)
\* C5: a listing of a workspace holds only records uploaded to that
\* workspace, and no handle a query passes to the retrieval worker belongs to
\* a record of another workspace, whatever document ids the query names.
C5_WorkspaceScoping ==
  /\ \A e \in listing.documents :
        /\ e.doc.workspaceId = listing.workspaceId
        /\ \A u \in Uploads :
              uploads[u].docId = Atom(e.id) =>
                uploads[u].workspaceId.val = listing.workspaceId
  /\ \A q \in Queries :
        /\ \A id \in queries[q].found :
              docs[id].workspaceId = queries[q].workspaceId.val
        /\ \A k \in 1..Len(queries[q].spawned.handles) :
              \A id \in DOMAIN docs :
                 docs[id].workspaceId # queries[q].workspaceId.val =>
                   docs[id].chromaDocumentId # Some(queries[q].spawned.handles[k])

\* A query to one workspace names the id of a processed record of the other
\* workspace and reaches the retrieval worker, and the other workspace's
\* records are absent from a listing.
C5_Witness ==
  /\ \E q \in Queries :
        /\ queries[q].spawned.has
        /\ \E k \in 1..Len(queries[q].documentIds.ids) :
              LET id == queries[q].documentIds.ids[k]
              IN  /\ id \in DOMAIN docs
                  /\ docs[id].processed
                  /\ Truthy(docs[id].chromaDocumentId)
                  /\ docs[id].workspaceId # queries[q].workspaceId.val
  /\ listing.status = 200
  /\ listing.documents # {}
  /\ \E id \in DOMAIN docs : docs[id].workspaceId # listing.workspaceId

\* C6: when the processed records a query resolves give no handle, the
\* request ends with the 400 response for no processed documents, and neither
\* the retrieval worker nor the LLM is called.
C6_NoHandlesNoAnswer ==
  \A q \in Queries :
     /\ queries[q].resolved
     /\ \A id \in queries[q].found : ~Truthy(docs[id].chromaDocumentId)
     => /\ queries[q].pc = "done"
        /\ queries[q].res.status = 400
        /\ queries[q].res.message \in
             {"No processed documents found for the provided IDs.",
              "No documents have been processed yet. Please upload a file first."}
        /\ ~queries[q].res.answer.has
        /\ ~queries[q].spawned.has
        /\ ~queries[q].ran
        /\ ~queries[q].prompt.has

\* The workspace holds a processed record, whose handle is empty.
C6_Witness ==
  \E q \in Queries :
     /\ queries[q].resolved
     /\ queries[q].found # {}
     /\ queries[q].res.status = 400

\* The retrieval worker exited with code 0 and printed the empty list.
RetrievedNothing(run) ==
  run.event = "close" /\ run.code = 0 /\ Trim(run.stdout) = <<"[]">>

\* C7: when the retrieval worker returns zero passages, the response is 200
\* with the fixed answer, no citations, no next steps and no chart hint,
\* whatever the query text, and the LLM is not called.
C7_FixedAnswerForNoPassages ==
  \A q \in Queries :
     queries[q].ran /\ RetrievedNothing(queries[q].run) =>
       /\ queries[q].pc = "done"
       /\ queries[q].spawned.handles # <<>>
       /\ queries[q].res.status = 200
       /\ queries[q].res.answer = Some(InsufficientAnswer)
       /\ queries[q].res.citations = <<>>
       /\ queries[q].res.nextSteps = <<>>
       /\ ~queries[q].res.chartData.has
       /\ ~queries[q].res.error.has
       /\ ~queries[q].prompt.has

C7_Witness ==
  \E q \in Queries :
     /\ queries[q].ran
     /\ RetrievedNothing(queries[q].run)
     /\ queries[q].query = Str("Who is the owner?")
     /\ queries[q].res.status = 200

\* The passages the retrieval worker printed.
Retrieved(run) == JsonParse(Trim(run.stdout)).items

\* C8: the citations of a successful answer are the sources of the retrieved
\* passages, one per passage, in retrieval order, repeated sources included.
C8_CitationsFollowPassages ==
  \A q \in Queries :
     queries[q].pc = "done" /\ queries[q].res.status = 200 /\ queries[q].prompt.has =>
       LET passages == Retrieved(queries[q].run)
       IN  /\ Len(queries[q].res.citations) = Len(passages)
           /\ \A k \in 1..Len(passages) :
                 queries[q].res.citations[k] = passages[k].source

\* Three passages, two of them from the same source.
C8_Witness ==
  \E q \in Queries :
     /\ queries[q].pc = "done"
     /\ queries[q].res.status = 200
     /\ queries[q].res.citations = <<Atom("S2"), Atom("S1"), Atom("S2")>>

\* A list of passages: an array whose elements have a text and a source.
IsPassageList(value) ==
  /\ ~value.throws
  /\ value.type = "array"
  /\ \A k \in 1..Len(value.items) : value.items[k].text.has /\ value.items[k].source.has

RetrievalFailed(run) ==
  \/ run.event = "error"
  \/ run.code # 0
  \/ ~IsPassageList(JsonParse(Trim(run.stdout)))

\* C10, as the claim states it: a retrieval worker that cannot be started,
\* exits non-zero or prints something that is not a passage list makes the
\* query end with an error response, never with the answer for zero passages,
\* and the LLM is not called.
C10_RetrievalFailureIsAnError ==
  \A q \in Queries :
     queries[q].ran /\ RetrievalFailed(queries[q].run) =>
       /\ queries[q].pc = "done"
       /\ queries[q].res.status >= 400
       /\ queries[q].res.answer # Some(InsufficientAnswer)
       /\ ~queries[q].prompt.has

(***************************************************************************)
(* Properties of the answer's post-processing.                             *)
(***************************************************************************)
\* The pieces answers are put together from.
MaxFragments == 3

Fragments ==
  { <<"p", "i", "e", " ", "c", "h", "a", "r", "t">>,
    <<"P", "I", "E", " ", "C", "H", "A", "R", "T">>,
    <<"P", "i", "e", " ", "C", "h", "a", "r", "t">>,
    <<"b", "a", "r", " ", "c", "h", "a", "r", "t">>,
    <<"L", "i", "n", "e", " ", "C", "h", "a", "r", "t">>,
    <<"c", "h", "a", "r", "t">>,
    <<"V", "i", "s", "u", "a", "l", "i", "z", "e">>,
    <<"p", "i", "e">>,
    <<" ">>,
    <<"c", "h", "a", "r">>,
    <<"r", "e", "v", "e", "n", "u", "e">> }

RECURSIVE Join(_)
\* The pieces of a list, one after the other.
Join(pieces) ==
  IF pieces = <<>> THEN <<>> ELSE Head(pieces) \o Join(Tail(pieces))

\* Every text of at most MaxFragments pieces, as the answer of the LLM.
AnswerTexts ==
  UNION { {Join(pieces) : pieces \in [1..n -> Fragments]} : n \in 0..MaxFragments }

\* One workspace with uploads that succeed, and queries over it whose
\* retrieval finds a passage and whose LLM call returns any of the texts.
AnswerWorkspaceIds == {Str("W1")}
AnswerUploadRuns == {Closed(0, SUCCESS \o V1 \o <<"\n">>, <<>>)}
AnswerDocumentIds == {NoIds}
AnswerGenerations == {Generated(text) : text \in AnswerTexts}

AnsweringNext ==
  \/ UploadNext(SeedFiles, AnswerWorkspaceIds, {TRUE}, AnswerUploadRuns)
  \/ QueryNext(ScopedTexts, AnswerWorkspaceIds, AnswerDocumentIds, {TRUE},
               ScopedRuns, AnswerGenerations)

AnswerSpec == Init /\ [][AnsweringNext]_vars

\* The text has the word at some position, in any mix of letter cases.
ContainsAnyCase(text, word) ==
  \E i \in 1..(Len(text) - Len(word) + 1) :
     \A k \in 1..Len(word) : LowerChar(text[i + k - 1]) = word[k]

\* The queries that were answered by the LLM.
Answered == {q \in Queries : queries[q].pc = "done" /\ queries[q].prompt.has
                                /\ queries[q].res.status = 200}

\* C11: for every answer text of the LLM, an answer that contains "pie chart"
\* in any letter case gets the chart hint "Pie chart showing proportions.",
\* and an answer that contains neither "chart" nor "visualize" in any letter
\* case gets no chart hint (undefined).
C11_ChartHint ==
  \A q \in Answered :
     LET aiAnswer == queries[q].res.answer.val
         chartData == queries[q].res.chartData
     IN  /\ ContainsAnyCase(aiAnswer, <<"p", "i", "e", " ", "c", "h", "a", "r", "t">>)
              => chartData = Atom("Pie chart showing proportions.")
         /\ (~ContainsAnyCase(aiAnswer, <<"c", "h", "a", "r", "t">>)
             /\ ~ContainsAnyCase(aiAnswer, <<"v", "i", "s", "u", "a", "l", "i", "z", "e">>))
              => chartData = NoAtom

\* An answer naming a bar chart and then a PIE CHART got the pie chart hint.
C11_Witness ==
  \E q \in Answered :
     /\ queries[q].res.answer.val =
          <<"b", "a", "r", " ", "c", "h", "a", "r", "t">> \o <<" ">>
             \o <<"P", "I", "E", " ", "C", "H", "A", "R", "T">>
     /\ queries[q].res.chartData = Atom("Pie chart showing proportions.")

(***************************************************************************)
(* Validation of the upload request.                                       *)
(***************************************************************************)
\* The upload requests received with no workspace identifier: the field is
\* absent or is not a string.
NoWorkspaceId(u) == uploads[u].pc # "idle" /\ uploads[u].workspaceId.type # "string"

\* Such a request is over with a 400 response, has created no record and has
\* not started the embedding worker.
C12_Rejected ==
  \A u \in Uploads :
     NoWorkspaceId(u) =>
       /\ uploads[u].pc = "done"
       /\ uploads[u].res.status = 400
       /\ uploads[u].docId = NoAtom
       /\ uploads[u].spawned = NoSpawn
       /\ ~uploads[u].ran

\* The step that receives such a request leaves the store as it was.
C12_StoreUnchanged ==
  \A u \in Uploads :
     (uploads[u].pc = "idle" /\ uploads'[u].pc # "idle"
        /\ uploads'[u].workspaceId.type # "string")
       => (docs' = docs /\ generated' = generated)

\* C12: an upload request with no workspace identifier (absent or not a
\* string) is rejected with a 400 response, leaves the metadata store
\* unchanged (no record is created) and does not invoke the embedding worker.
C12_NoWorkspaceIdRejected == []C12_Rejected /\ [][C12_StoreUnchanged]_vars

\* A request with a file and a workspace identifier that is not a string was
\* rejected while the store holds a record of an earlier upload.
C12_Witness ==
  \E u \in Uploads :
     /\ uploads[u].file.present
     /\ uploads[u].workspaceId = NonString
     /\ uploads[u].res.status = 400
     /\ DOMAIN docs # {}

(***************************************************************************)
(* Startup.                                                                *)
(***************************************************************************)
\* The process is launched in any environment.
StartupInit ==
  /\ NoRequests
  /\ \E env \in Envs : process = Launching(env)

\* Startup, and meanwhile the requests the server answers: GET / at once,
\* a listing once mongoose is connected (until then it buffers the find).
StartupNext ==
  \/ Load
  \/ ConnectDB
  \/ ConnectMySQL
  \/ \E synced \in BOOLEAN : SyncMySQL(synced)
  \/ Ping
  \/ (process.mongo = "connected" /\ ListNext(BOOLEAN))

StartupSpec == StartupInit /\ [][StartupNext]_vars

\* The LLM credential is missing or a store is unreachable.
Misconfigured ==
  \/ ~process.env.geminiKey
  \/ ~process.env.mongoUri
  \/ ~process.env.mongoUp
  \/ ~process.env.mysqlUp

NothingServed ==
  /\ process.pings = 0
  /\ listing = NoListing
  /\ \A u \in Uploads : uploads[u].pc = "idle"
  /\ \A q \in Queries : queries[q].pc = "idle"

\* C13: if at startup the LLM credential is missing or a store (MongoDB,
\* MySQL) is unreachable, the process halts and no request is ever served in
\* that run.
C13_MisconfiguredNeverServes == Misconfigured => NothingServed

(***************************************************************************)
(* Several SUCCESS lines.                                                  *)
(***************************************************************************)
\* The lines of the form SUCCESS:<handle>, in the order they were printed.
SuccessLines(stdout) == SelectSeq(Lines(stdout), IsSuccessLine)

\* The handle a SUCCESS:<handle> line carries.
HandleOf(line) == Trim(SubSeq(line, Len(SUCCESS) + 1, Len(line)))

\* The worker exited 0 and printed several lines SUCCESS:<handle>, and the
\* marker nowhere else.
SeveralSuccessLines(run) ==
  /\ run.event = "close"
  /\ run.code = 0
  /\ Len(SuccessLines(run.stdout)) >= 2
  /\ \A k \in 1..Len(Lines(run.stdout)) :
        Includes(Lines(run.stdout)[k], SUCCESS) => IsSuccessLine(Lines(run.stdout)[k])

\* The handle the upload took from its worker is h: the request holds it,
\* and a successful request stored it on its record and returned it.
TookHandle(u, h) ==
  /\ uploads[u].pc \in {"marking", "done"}
  /\ uploads[u].chromaDocId = Some(h)
  /\ uploads[u].res.status = 200 =>
       /\ docs[uploads[u].docId.val].chromaDocumentId = Some(h)
       /\ uploads[u].res.chromaDocumentId = Some(h)

\* C14 as stated: when the embedding worker exits 0 and its stdout contains
\* several lines matching SUCCESS:<handle>, the vector handle stored on the
\* record and returned to the caller is the handle of the last matching line.
C14_LastSuccessHandle ==
  \A u \in Uploads :
     (uploads[u].ran /\ SeveralSuccessLines(uploads[u].run)) =>
        LET lines == SuccessLines(uploads[u].run.stdout)
        IN  TookHandle(u, HandleOf(lines[Len(lines)]))

\* C14 as the code has it: when the embedding worker exits 0 and its stdout
\* contains several lines matching SUCCESS:<handle>, the vector handle stored
\* on the record and returned to the caller is the handle of the first
\* matching line.
C14_FirstSuccessHandle ==
  \A u \in Uploads :
     (uploads[u].ran /\ SeveralSuccessLines(uploads[u].run)) =>
        TookHandle(u, HandleOf(SuccessLines(uploads[u].run.stdout)[1]))

\* An upload whose worker printed two SUCCESS lines with different handles
\* has succeeded.
C14_Witness ==
  \E u \in Uploads :
     /\ uploads[u].ran
     /\ SeveralSuccessLines(uploads[u].run)
     /\ LET lines == SuccessLines(uploads[u].run.stdout)
        IN  HandleOf(lines[1]) # HandleOf(lines[Len(lines)])
     /\ uploads[u].res.status = 200
     /\ docs[uploads[u].docId.val].processed

(***************************************************************************)
(* The life of a record.                                                   *)
(***************************************************************************)
\* What a step may do to the record with the given id: leave it as it is, or
\* turn it from pending to processed, and nothing else.
RecordStep(id) ==
  /\ id \in DOMAIN docs'
  /\ docs'[id].fileName = docs[id].fileName
  /\ docs'[id].originalType = docs[id].originalType
  /\ docs'[id].workspaceId = docs[id].workspaceId
  /\ docs[id].processed => docs'[id] = docs[id]
  /\ docs'[id] # docs[id] =>
       /\ ~docs[id].processed /\ docs[id].chromaDocumentId = None
       /\ docs'[id].processed /\ docs'[id].chromaDocumentId.has

C15_RecordSteps == \A id \in DOMAIN docs : RecordStep(id)

\* C15: over any sequence of uploads, listings and queries, each document
\* record changes at most once, from pending to processed: once a record is
\* processed with handle h it stays processed with handle h in every later
\* state, its fileName, mimeType and workspaceId never change, and no record
\* is ever deleted.
C15_PendingToProcessedOnce == [][C15_RecordSteps]_vars

\* A record is processed, and after that another upload has tried to take the
\* same handle and has failed, a listing has been read and a query answered.
C15_Witness ==
  \E u, v \in Uploads :
     /\ u # v
     /\ uploads[u].res.status = 200
     /\ docs[uploads[u].docId.val].processed
     /\ uploads[v].pc = "done"
     /\ uploads[v].chromaDocId = uploads[u].chromaDocId
     /\ uploads[v].res.status = 500
     /\ uploads[v].docId.val \in DOMAIN docs
     /\ listing.status = 200
     /\ \E q \in Queries : queries[q].res.status = 200

(***************************************************************************)
(* Uniqueness of the vector handle.                                        *)
(***************************************************************************)
\* Another record than the upload's own holds the handle its worker printed.
HandleTaken(u) ==
  /\ uploads[u].chromaDocId.has
  /\ \E other \in DOMAIN docs :
        /\ other # uploads[u].docId.val
        /\ docs[other].chromaDocumentId = uploads[u].chromaDocId

\* C16: in every reachable state no two document records hold the same
\* vector handle; an attempt to mark a record processed with a handle already
\* held by another record is rejected, leaving that record pending with no
\* handle and returning an error to the caller.
C16_UniqueHandles ==
  /\ \A a, b \in DOMAIN docs :
        (a # b /\ docs[a].chromaDocumentId.has /\ docs[b].chromaDocumentId.has)
          => docs[a].chromaDocumentId # docs[b].chromaDocumentId
  /\ \A u \in Uploads :
        (uploads[u].pc = "done" /\ HandleTaken(u)) =>
          /\ uploads[u].res.status = 500
          /\ uploads[u].res.error.has
          /\ ~docs[uploads[u].docId.val].processed
          /\ docs[uploads[u].docId.val].chromaDocumentId = None

\* The store was reachable for both uploads, both workers printed the same
\* handle, and the second attempt was refused by the index.
C16_Witness ==
  \E u, v \in Uploads :
     /\ u # v
     /\ uploads[u].res.status = 200
     /\ uploads[v].pc = "done"
     /\ uploads[v].chromaDocId = uploads[u].chromaDocId
     /\ uploads[v].res.error = Some(DuplicateKeyError)
     /\ docs[uploads[u].docId.val].chromaDocumentId = uploads[u].chromaDocId

(***************************************************************************)
(* The errors of a query.                                                  *)
(***************************************************************************)
\* The query ended before the LLM was called, because the metadata store or
\* the retrieval worker failed.
FailedBeforeLLM(q) ==
  /\ queries[q].pc = "done"
  /\ ~queries[q].prompt.has
  /\ \/ ~queries[q].resolved /\ ~Falsy(queries[q].query) /\ ~Falsy(queries[q].workspaceId)
     \/ queries[q].ran /\ ~RunPythonScript(queries[q].run).ok

\* C17: a query returns AuthError (401) only when the LLM call itself was
\* made and failed with an invalid-credential error; a failure of the
\* retrieval worker or of the metadata store, whatever its error text, is
\* reported as a generic failure (500) and never as AuthError.
C17_AuthErrorOnlyFromLLM ==
  \A q \in Queries :
     /\ queries[q].res.status = 401 => queries[q].prompt.has
     /\ FailedBeforeLLM(q) => queries[q].res.status = 500

(***************************************************************************)
(* Concurrent uploads.                                                     *)
(***************************************************************************)
\* Two uploads of files to the workspaces, running concurrently against a
\* store that is reachable.
UploadsSpec == Init /\ [][SeedNext]_vars

Succeeded(u) ==
  /\ uploads[u].res.status = 200
  /\ docs[uploads[u].docId.val].processed
  /\ docs[uploads[u].docId.val].chromaDocumentId = uploads[u].chromaDocId

Failed(u) ==
  /\ uploads[u].res.status = 500
  /\ ~docs[uploads[u].docId.val].processed
  /\ docs[uploads[u].docId.val].chromaDocumentId = None

\* A step of a request leaves every record but its own as it was.
OwnRecordOnly ==
  \A u \in Uploads :
     uploads'[u] # uploads[u] =>
        \A id \in DOMAIN docs :
           id # uploads'[u].docId.val => (id \in DOMAIN docs' /\ docs'[id] = docs[id])

\* The outcome of a finished upload follows from its own worker's result.
OwnResultAlone ==
  \A u \in Uploads :
     (uploads[u].pc = "done" /\ uploads[u].ran) =>
        IF WorkerFailed(uploads[u].run) THEN Failed(u) ELSE Succeeded(u)

\* The same, but for a worker that printed a handle another record holds.
OwnResultUnlessHandleTaken ==
  \A u \in Uploads :
     (uploads[u].pc = "done" /\ uploads[u].ran) =>
        IF WorkerFailed(uploads[u].run) \/ HandleTaken(u) THEN Failed(u) ELSE Succeeded(u)

\* C18 as stated: for two upload requests running concurrently that create
\* different records, under every interleaving of their persist,
\* worker-invocation and mark-processed steps, each request modifies only the
\* record it created and its outcome (success or failure, and its record's
\* final state) is determined by its own worker result alone; neither request
\* can make the other fail.
C18_UploadsIndependent == []OwnResultAlone /\ [][OwnRecordOnly]_vars

\* C18 as the code has it: each request modifies only the record it created,
\* and its outcome is determined by its own worker result alone unless the
\* worker printed a handle that another record already holds: then the
\* request fails and its record stays pending.
C18_UploadsIndependentUnlessHandleTaken ==
  []OwnResultUnlessHandleTaken /\ [][OwnRecordOnly]_vars

\* Two uploads to the same workspace ran side by side and both succeeded,
\* with different handles.
C18_Witness ==
  /\ Succeeded(1)
  /\ Succeeded(2)
  /\ uploads[1].chromaDocId # uploads[2].chromaDocId
  /\ docs[uploads[1].docId.val].workspaceId = docs[uploads[2].docId.val].workspaceId

=============================================================================
